---- MODULE Spec2Model ----
(***************************************************************************)
(* Query execution and result spooling of sqlterm's SQLAlchemy backend:    *)
(* SaBackend (connect / disconnect / execute / _spool_results), the        *)
(* per-dialect query managers and the SaSpoolMonitor thread.               *)
(*                                                                         *)
(* Python None is the string "None"; an absent column list (the manager's  *)
(* __columns = None, cursor.description = None) is the empty sequence,     *)
(* which is also what the managers' `columns` property returns for it.     *)
(*                                                                         *)
(* SaSpoolMonitor.__init__ takes display_progress from its caller; the     *)
(* value is an input of the model (both booleans).                         *)
(***************************************************************************)
EXTENDS Integers, Sequences, FiniteSets, Bags, TLC

\* ---------------------------------------------------------------- bounds
MaxSets == 2
MaxRows == 2
MaxOrphans == 1
MaxInspectors == 2
MaxBatch == 3
MaxCsvRows == 2
MaxMessages == 2
PrefixPasses == 3
CHANGE_DATABASE == 5701

VARIABLES
    engine,        \* SaBackend.__engine: "None" or the url it was created from
    connection,    \* SaBackend.__active_connection: "None" or the url
    dialect,       \* SaBackend.__dialect: "None" or an SaDialect value
    inspector,     \* SaBackend.__inspector: "None" or the inspector's type
    promptDialect, \* dialect last handed to prompt.change_dialect
    pc,            \* position of the main thread
    mgr,           \* the query manager of the running execute()
    drv,           \* the native driver's side of the running query
    spool,         \* _spool_results: spool; after fetch_results_for the
                   \* list it returned
    table,         \* _spool_results: table (<<>> for None, or the record
                   \* set rendered)
    pend,          \* exception held by an except block until its `raise`
    endSignal,     \* the control-flow exception that ended the fetch loop
    mon,           \* _spool_results: monitor (the current SaSpoolMonitor)
    orphans,       \* monitors still alive whose execute() has been left,
                   \* each known by its __stopped
    constructed,   \* record sets handed to construct_table by this execute(),
                   \* each with the native set the cursor stood on
    displayed,     \* tables handed to display_table by this execute()
    lastOp,        \* the backend operation called last
    outcome,       \* how it ended: "running", "returned" or the exception
    atExec,        \* engine and connection when execute() was entered
    detail,        \* the text the exception of `outcome` carries (<<>>: none)
    txn,           \* commit / rollback calls made on the connection by the
                   \* manager in use
    structure,     \* the completer's inspector_structure: "None" or the
                   \* inspector that delivered it
    insps,         \* the inspector threads alive, a bag of [kind, pc, cur]
    disconnects,   \* disconnect() calls in a row up to now (at most 2 counted)
    msgs,          \* server messages of the manager in use: those each
                   \* native set brings (arrive), cursor.messages (pending)
                   \* and those handed to print_message_sql (shown)
    termCursor,    \* the terminal's cursor: "visible" or "hidden"
    cachedFrom     \* whose structure the prompt's cache holds: "none", that
                   \* of the "latest" inspector (self.__inspector), of an
                   \* "earlier" one, or of an earlier one written over the
                   \* latest one's ("stale")

vars == <<engine, connection, dialect, inspector, promptDialect, pc, mgr, drv,
          spool, table, pend, endSignal, mon, orphans, constructed, displayed,
          lastOp, outcome, atExec, detail, txn, structure, insps, disconnects,
          msgs, termCursor, cachedFrom>>

backendVars == <<engine, connection, dialect, inspector, promptDialect>>

\* followed by the connection and manager specifications below; the
\* execution specification leaves them alone
sideVars ==
    <<detail, txn, structure, insps, disconnects, msgs, termCursor, cachedFrom>>
spoolVars == <<spool, table, pend, endSignal, mon, constructed, displayed>>

\* ------------------------------------------------------- dialects, urls
SaDialectValues == {"mssql", "mysql", "oracle", "postgresql", "sqlite"}

\* driver names of the connection urls tried; "db2" has no SaDialect value
DriverNames == SaDialectValues \cup {"db2"}

\* a connection url per driver name
UrlFor ==
    [d \in DriverNames |->
        CASE d = "mssql" -> "mssql://host/db"
          [] d = "mysql" -> "mysql://host/db"
          [] d = "oracle" -> "oracle://host/db"
          [] d = "postgresql" -> "postgresql://host/db"
          [] d = "sqlite" -> "sqlite:///file.db"
          [] d = "db2" -> "db2://host/db"]

Urls == {UrlFor[d] : d \in DriverNames}

\* URL.drivername
DriverOf(url) == CHOOSE d \in DriverNames : UrlFor[d] = url

\* config.aliases: one alias of a url, one of a text make_url rejects
Aliases ==
    [a \in {"prod", "stale"} |->
        IF a = "prod" THEN UrlFor["postgresql"] ELSE "host:5432"]

\* dialect_connection_prompt_models
dialect_connection_prompt_models == {"mssql", "sqlite"}

\* connection strings: the urls, the aliases, a dialect name that has a
\* prompt model, one that has none, and a text that is none of these
ConnectionStrings ==
    Urls \cup DOMAIN Aliases \cup {"sqlite", "mysql", "not a url"}

query_manager_for_dialect ==
    [d \in SaDialectValues |->
        CASE d = "mssql" -> "MsSqlManager"
          [] d = "mysql" -> "MySqlManager"
          [] d = "oracle" -> "OracleManager"
          [] d = "postgresql" -> "PostgresManager"
          [] d = "sqlite" -> "SqliteManager"]

sql_inspector_for_dialect ==
    [d \in SaDialectValues |->
        CASE d = "mssql" -> "MsSqlInspector"
          [] d = "mysql" -> "MySqlInspector"
          [] d = "oracle" -> "OracleInspector"
          [] d = "postgresql" -> "PostgresInspector"
          [] d = "sqlite" -> "SqliteInspector"]

generic_dialect_map ==
    [d \in SaDialectValues |->
        CASE d = "mssql" -> "TSQL"
          [] d = "mysql" -> "MYSQL"
          [] d = "oracle" -> "ORACLE"
          [] d = "postgresql" -> "POSTGRES"
          [] d = "sqlite" -> "SQLITE"]

SplittingManagers == {"SqliteManager", "PostgresManager"}
SingleSetManagers == {"DefaultManager", "OracleManager"}

\* ------------------------------------------------ native results (input)
\* the column names of native set i, when it has a description: one column
ColumnNames(i) == << <<"col", i>> >>

\* what the driver answers for one statement / one native result set:
\* an error, or a description (cols, <<>> when description is None) and rows
\* (none, or MaxRows of them)
NativeSets(i) ==
    {[err |-> TRUE, cols |-> <<>>, n |-> 0]}
    \cup {[err |-> FALSE, cols |-> <<>>, n |-> 0]}
    \cup {[err |-> FALSE, cols |-> ColumnNames(i), n |-> k] : k \in {0, MaxRows}}

RECURSIVE ScriptsOfLen(_)
ScriptsOfLen(k) ==
    IF k = 0 THEN {<<>>}
    ELSE {Append(s, x) : s \in ScriptsOfLen(k - 1), x \in NativeSets(k)}

ScriptsByLen == [k \in 0..MaxSets |-> ScriptsOfLen(k)]

\* what the driver answers to the statements of "SELECT 1; SELECT 2;": one
\* row of one column each
SelectOneSelectTwo ==
    [i \in 1..2 |-> [err |-> FALSE, cols |-> ColumnNames(i), n |-> 1]]

\* the native results a manager can meet: a splitting manager runs the
\* statements sqlparse.split gives (possibly none), a single-set manager
\* sees the one result of its cursor, the others one result or more
Scripts(kind) ==
    IF kind \in SplittingManagers
        THEN UNION {ScriptsByLen[k] : k \in 0..MaxSets} \cup {SelectOneSelectTwo}
    ELSE IF kind \in SingleSetManagers
        THEN ScriptsByLen[1]
    ELSE UNION {ScriptsByLen[k] : k \in 1..MaxSets}

\* row j of native set i
Row(i, j) == <<i, j>>

\* -------------------------------------------------------- query managers
\* A manager is [kind, connection, columns, cursor, native, flag, err]:
\*   connection  the connection handed to the constructor ("None" or the url)
\*   columns  __columns (<<>> for None)
\*   cursor   the __cursor attribute: "None" or "set"
\*   native   the native cursor last allocated: "none", "open" or "closed"
\*   flag     __returned_records (Default, Oracle), __rows_fetched (MsSql, MySql)
\*   err      __mssql_error, __mysql_error, __sqlite_error, __postgres_error
\* The driver side is [script, pos, fetched]: the native results, the one the
\* cursor stands on (0: nothing executed yet) and the rows fetched from it.
NoManager ==
    [kind |-> "None", connection |-> "None", columns |-> <<>>,
     cursor |-> "None", native |-> "none", flag |-> FALSE, err |-> FALSE]

NoDriver == [script |-> <<>>, pos |-> 0, fetched |-> 0]

\* no message announced, pending or shown
NoMessages == [arrive |-> <<>>, pending |-> <<>>, shown |-> <<>>]

\* the `columns` property of every manager
Columns(m) == m.columns

\* cursor.description of the native set the cursor stands on
Description(d) == d.script[d.pos].cols

\* <manager>.__init__: the managers that execute in the constructor reach
\* through the connection (AttributeError when it is None) and raise
\* SqlQueryException when the driver rejects the text; the splitting
\* managers only split the text
NewManager(kind, script, conn) ==
    LET d0 == [script |-> script, pos |-> 0, fetched |-> 0]
        d1 == [script |-> script, pos |-> 1, fetched |-> 0]
        m0 == [NoManager EXCEPT !.kind = kind, !.connection = conn]
    IN  IF kind \in SplittingManagers
            THEN [exc |-> "none", mgr |-> m0, drv |-> d0]
        ELSE IF conn = "None"
            THEN [exc |-> "AttributeError", mgr |-> NoManager, drv |-> NoDriver]
        ELSE IF script[1].err
            THEN [exc |-> "SqlQueryException", mgr |-> NoManager, drv |-> NoDriver]
        ELSE IF kind \in SingleSetManagers
            THEN [exc |-> "none",
                  mgr |-> [m0 EXCEPT !.columns = script[1].cols,
                                     !.cursor = "set", !.native = "open"],
                  drv |-> d1]
        ELSE [exc |-> "none",
              mgr |-> [m0 EXCEPT !.cursor = "set", !.native = "open"],
              drv |-> d1]

\* MsSqlManager / MySqlManager.has_another_record_set once rows were fetched:
\* _next_record_set is repeated while it raises ReturnsNoRecords
RECURSIVE NextRecordSet(_, _)
NextRecordSet(m, d) ==
    IF d.pos >= Len(d.script)
        THEN [exc |-> "none", ret |-> FALSE, mgr |-> m, drv |-> d]
    ELSE IF d.script[d.pos + 1].err
        THEN [exc |-> "DriverError", ret |-> FALSE, mgr |-> m, drv |-> d]
    ELSE LET d2 == [d EXCEPT !.pos = d.pos + 1, !.fetched = 0]
         IN  IF Description(d2) = <<>>
                 THEN NextRecordSet(m, d2)
             ELSE [exc |-> "none", ret |-> TRUE,
                   mgr |-> [m EXCEPT !.columns = Description(d2)], drv |-> d2]

\* a has_another_record_set that a single-set manager never answers with
\* false
HasAnotherRecordSetNeverEnds(m, d) ==
    IF m.kind \in SingleSetManagers
        THEN [exc |-> "none", ret |-> TRUE, mgr |-> m, drv |-> d]
    ELSE IF m.kind \in SplittingManagers
        THEN [exc |-> "none", ret |-> ~m.err /\ d.pos < Len(d.script),
              mgr |-> m, drv |-> d]
    ELSE [exc |-> "none", ret |-> ~m.err,
          mgr |-> [m EXCEPT !.columns = Description(d)], drv |-> d]

\* a has_another_record_set that stops at the very next native set, with or
\* without columns
HasAnotherRecordSetStopsAtNext(m, d) ==
    IF m.kind \in SingleSetManagers
        THEN [exc |-> "none", ret |-> ~m.flag, mgr |-> m, drv |-> d]
    ELSE IF m.kind \in SplittingManagers
        THEN [exc |-> "none", ret |-> ~m.err /\ d.pos < Len(d.script),
              mgr |-> m, drv |-> d]
    ELSE IF m.flag
        THEN IF d.pos >= Len(d.script)
                 THEN [exc |-> "none", ret |-> FALSE, mgr |-> m, drv |-> d]
             ELSE IF d.script[d.pos + 1].err
                 THEN [exc |-> "DriverError", ret |-> FALSE, mgr |-> m, drv |-> d]
             ELSE LET d2 == [d EXCEPT !.pos = d.pos + 1, !.fetched = 0]
                  IN  [exc |-> "none", ret |-> ~m.err,
                       mgr |-> [m EXCEPT !.columns = Description(d2)],
                       drv |-> d2]
    ELSE [exc |-> "none", ret |-> ~m.err,
          mgr |-> [m EXCEPT !.columns = Description(d)], drv |-> d]

\* a has_another_record_set that a single-set manager keeps answering with
\* true while the set it holds has no columns
HasAnotherRecordSetWhileNoColumns(m, d) ==
    IF m.kind \in SingleSetManagers
        THEN [exc |-> "none", ret |-> ~m.flag \/ m.columns = <<>>,
              mgr |-> m, drv |-> d]
    ELSE IF m.kind \in SplittingManagers
        THEN [exc |-> "none", ret |-> ~m.err /\ d.pos < Len(d.script),
              mgr |-> m, drv |-> d]
    ELSE IF m.flag
        THEN LET r == NextRecordSet(m, d)
             IN  [r EXCEPT !.ret = ~m.err /\ r.ret]
    ELSE [exc |-> "none", ret |-> ~m.err,
          mgr |-> [m EXCEPT !.columns = Description(d)], drv |-> d]

\* <manager>.has_another_record_set
HasAnotherRecordSet(m, d) ==
    IF m.kind \in SingleSetManagers
        THEN [exc |-> "none", ret |-> ~m.flag, mgr |-> m, drv |-> d]
    ELSE IF m.kind \in SplittingManagers
        THEN [exc |-> "none", ret |-> ~m.err /\ d.pos < Len(d.script),
              mgr |-> m, drv |-> d]
    ELSE IF m.flag
        THEN LET r == NextRecordSet(m, d)
             IN  [r EXCEPT !.ret = ~m.err /\ r.ret]
    ELSE [exc |-> "none", ret |-> ~m.err,
          mgr |-> [m EXCEPT !.columns = Description(d)], drv |-> d]

\* a fetchone() that finds every set exhausted
FetchOneAtEnd(m, d) ==
    [exc |-> "RecordSetEnd", row |-> <<>>, mgr |-> m, drv |-> d]

\* cursor.fetchone() on a set that has a description
FetchOne(m, d) ==
    IF d.fetched < d.script[d.pos].n
        THEN [exc |-> "none", row |-> Row(d.pos, d.fetched + 1), mgr |-> m,
              drv |-> [d EXCEPT !.fetched = d.fetched + 1]]
    ELSE IF m.kind \in SplittingManagers \cup {"OracleManager"}
        THEN [exc |-> "RecordSetEnd", row |-> <<>>,
              mgr |-> [m EXCEPT !.cursor = "None", !.native = "closed"],
              drv |-> d]
    ELSE [exc |-> "RecordSetEnd", row |-> <<>>, mgr |-> m, drv |-> d]

\* __columns after a statement that has no description
ColumnsAfterNoRecords(m) ==
    IF m.kind = "PostgresManager" THEN <<>> ELSE m.columns

\* an _init_cursor that does not record the driver's error
InitCursorAndFetchForgetsError(m, d) ==
    LET stmt == d.script[d.pos + 1]
        d2 == [d EXCEPT !.pos = d.pos + 1, !.fetched = 0]
    IN  IF m.connection = "None"
            THEN [exc |-> "AttributeError", row |-> <<>>, mgr |-> m, drv |-> d]
        ELSE IF stmt.err
            THEN [exc |-> "SqlQueryException", row |-> <<>>, mgr |-> m,
                  drv |-> d2]
        ELSE IF stmt.cols = <<>>
            THEN [exc |-> "ReturnsNoRecords", row |-> <<>>,
                  mgr |-> [m EXCEPT !.columns = ColumnsAfterNoRecords(m),
                                    !.cursor = "None", !.native = "closed"],
                  drv |-> d2]
        ELSE FetchOne([m EXCEPT !.columns = stmt.cols, !.cursor = "set",
                                !.native = "open"], d2)

\* SqliteManager / PostgresManager._init_cursor followed by fetchone
InitCursorAndFetch(m, d) ==
    LET stmt == d.script[d.pos + 1]
        d2 == [d EXCEPT !.pos = d.pos + 1, !.fetched = 0]
    IN  IF m.connection = "None"
            THEN \* self.connection._dbapi_connection of None
                 [exc |-> "AttributeError", row |-> <<>>, mgr |-> m, drv |-> d]
        ELSE IF stmt.err
            THEN [exc |-> "SqlQueryException", row |-> <<>>,
                  mgr |-> IF m.kind = "PostgresManager"
                              THEN [m EXCEPT !.err = TRUE, !.cursor = "set",
                                             !.native = "open"]
                              ELSE [m EXCEPT !.err = TRUE],
                  drv |-> d]
        ELSE IF stmt.cols = <<>>
            THEN [exc |-> "ReturnsNoRecords", row |-> <<>>,
                  mgr |-> [m EXCEPT !.columns = ColumnsAfterNoRecords(m),
                                    !.cursor = "None", !.native = "closed"],
                  drv |-> d2]
        ELSE FetchOne([m EXCEPT !.columns = stmt.cols, !.cursor = "set",
                                !.native = "open"], d2)

\* <manager>.fetch_row
FetchRow(m, d) ==
    CASE m.kind = "DefaultManager" ->
            LET m1 == [m EXCEPT !.flag = TRUE]
            IN  IF Description(d) = <<>>
                    THEN [exc |-> "ReturnsNoRecords", row |-> <<>>,
                          mgr |-> m1, drv |-> d]
                    ELSE FetchOne(m1, d)
      [] m.kind \in {"MsSqlManager", "MySqlManager"} ->
            LET m1 == [m EXCEPT !.flag = TRUE]
            IN  IF Description(d) = <<>>
                    THEN [exc |-> "RecordSetEnd", row |-> <<>>,
                          mgr |-> m1, drv |-> d]
                    ELSE FetchOne(m1, d)
      [] m.kind = "OracleManager" ->
            IF ~m.flag /\ m.columns = <<>>
                THEN [exc |-> "ReturnsNoRecords", row |-> <<>>,
                      mgr |-> [m EXCEPT !.flag = TRUE], drv |-> d]
                ELSE FetchOne([m EXCEPT !.flag = TRUE], d)
      [] m.kind \in SplittingManagers ->
            IF m.cursor = "None"
                THEN InitCursorAndFetch(m, d)
                ELSE FetchOne(m, d)

\* <manager>.__exit__: DefaultManager tests hasattr(self, "__cursor"), which
\* is false of the mangled attribute _DefaultManager__cursor
ManagerExit(m) ==
    IF m.kind = "DefaultManager" THEN m
    ELSE IF m.cursor # "None"
        THEN [m EXCEPT !.native = "closed",
                       !.cursor = IF m.kind = "OracleManager"
                                      THEN "None" ELSE m.cursor]
    ELSE m

\* a commit that fails on every connection
ExitRaisesAlways(m) == m.kind \in SplittingManagers

\* SqliteManager / PostgresManager.__exit__ commit through the connection
ExitRaises(m) == m.kind \in SplittingManagers /\ m.connection = "None"

\* --------------------------------------------------------- spool monitor
\* A monitor is [pc, stopped, done, dp, last]: the position of run(),
\* __stopped, done, __display_progress and the progress line written last
\* ("none", "plain", or "glyph" for one ending in the check mark).
NoMonitor ==
    [pc |-> "none", stopped |-> FALSE, done |-> FALSE, dp |-> FALSE,
     last |-> "none"]

\* SaSpoolMonitor.__init__ followed by Thread.start()
NewMonitor(display_progress) ==
    [pc |-> "hide", stopped |-> FALSE, done |-> FALSE,
     dp |-> display_progress, last |-> "none"]

\* Thread.is_alive()
IsAlive(m) == m.pc \in {"hide", "check", "render", "clear", "show"}

\* a join that does not wait
JoinReturnsAtOnce(m) == TRUE

\* Thread.join() returns
JoinReturns(m) == ~IsAlive(m)

\* a progress line that never carries the check mark
ProgressLinePlain(m) == "plain"

\* the progress line display_progress writes: its last field is the check
\* mark when done is set
ProgressLine(m) == IF m.done THEN "glyph" ELSE "plain"

\* one step of SaSpoolMonitor.run: hide_cursor, the test of the while loop,
\* a progress line (the sleep follows it), the line clear, show_cursor
MonitorStep(m) ==
    CASE m.pc = "hide" -> [m EXCEPT !.pc = "check"]
      [] m.pc = "check" ->
            IF m.stopped THEN [m EXCEPT !.pc = "clear"]
            ELSE IF m.dp THEN [m EXCEPT !.pc = "render"]
            ELSE m
      [] m.pc = "render" -> [m EXCEPT !.pc = "check", !.last = ProgressLine(m)]
      [] m.pc = "clear" -> [m EXCEPT !.pc = "show"]
      [] m.pc = "show" -> [m EXCEPT !.pc = "dead"]
      [] OTHER -> m

\* PromptToolkitBackend.hide_cursor: session.app.output.hide_cursor()
hide_cursor(c) == "hidden"

\* PromptToolkitBackend.show_cursor: session.app.output.hide_cursor()
show_cursor(c) == "hidden"

\* what a step of run() does to the terminal's cursor
CursorAfter(m, c) ==
    CASE m.pc = "hide" -> hide_cursor(c)
      [] m.pc = "show" -> show_cursor(c)
      [] OTHER -> c

\* the steps of run() that write to the terminal
WritesTerminal(m) == m.pc \in {"hide", "render", "clear", "show"}

\* ------------------------------------------------------------- SaBackend
\* RecordSet(columns, records)
RecordSet(columns, records) == [columns |-> columns, records |-> records]

\* except RecordSetEnd alone
IsEndOfSetNarrow(exc) == exc = "RecordSetEnd"

\* except (RecordSetEnd, ReturnsNoRecords) in _spool_results
IsEndOfSet(exc) == exc \in {"RecordSetEnd", "ReturnsNoRecords"}

\* the manager class execute() instantiates
ManagerFor(d) ==
    IF d \in DOMAIN query_manager_for_dialect
        THEN query_manager_for_dialect[d] ELSE "DefaultManager"

\* the inspector class _init_inspector instantiates
InspectorFor(d) ==
    IF d \in DOMAIN sql_inspector_for_dialect
        THEN sql_inspector_for_dialect[d] ELSE "DefaultInspector"

\* _update_prompt_dialect
PromptDialectFor(d) ==
    IF d \in DOMAIN generic_dialect_map THEN generic_dialect_map[d] ELSE "GENERIC"

Init ==
    /\ engine = "None"
    /\ connection = "None"
    /\ dialect = "None"
    /\ inspector = "None"
    /\ promptDialect = "GENERIC"
    /\ pc = "idle"
    /\ mgr = NoManager
    /\ drv = NoDriver
    /\ spool = <<>>
    /\ table = <<>>
    /\ pend = "none"
    /\ endSignal = "none"
    /\ mon = NoMonitor
    /\ orphans = {}
    /\ constructed = <<>>
    /\ displayed = <<>>
    /\ lastOp = "none"
    /\ outcome = "none"
    /\ atExec = [engine |-> "None", connection |-> "None"]
    /\ detail = <<>>
    /\ txn = <<>>
    /\ structure = "None"
    /\ insps = EmptyBag
    /\ disconnects = 0
    /\ msgs = NoMessages
    /\ termCursor = "visible"
    /\ cachedFrom = "none"

\* a backend operation is entered: what the last execute() left is dropped
EnterOp(op) ==
    /\ pc = "idle"
    /\ lastOp' = op
    /\ spool' = <<>>
    /\ table' = <<>>
    /\ pend' = "none"
    /\ endSignal' = "none"
    /\ mon' = NoMonitor
    /\ constructed' = <<>>
    /\ displayed' = <<>>
    /\ atExec' = [engine |-> engine, connection |-> connection]

\* an operation that is not a running query ends on the spot
EndOp(result) ==
    /\ pc' = "idle"
    /\ outcome' = result
    /\ mgr' = NoManager
    /\ drv' = NoDriver
    /\ UNCHANGED orphans

\* a disconnect() that leaves everything as it is
DisconnectEffectSkipped ==
    UNCHANGED <<connection, engine, dialect, promptDialect, inspector>>

\* SaBackend.disconnect
DisconnectEffect ==
    /\ connection' = "None"
    /\ engine' = "None"
    /\ dialect' = "None"
    /\ promptDialect' = PromptDialectFor("None")
    /\ UNCHANGED inspector

Disconnect ==
    /\ EnterOp("disconnect")
    /\ DisconnectEffect
    /\ EndOp("returned")
    /\ UNCHANGED sideVars

\* no test for an existing connection
ConnectionExistsIgnored == FALSE

\* the test that opens _connect_with_string
ConnectionExists == engine # "None"

\* the message of the error make_url raises: it quotes the text it was given
MakeUrlMessage(text) == <<"Could not parse SQLAlchemy URL from string", text>>

\* SaBackend._try_make_url: an alias stands for its url, a dialect name with
\* a prompt model for the url built from the user's answers
_try_make_url(cs) ==
    LET text == IF cs \in DOMAIN Aliases THEN Aliases[cs]
                ELSE IF cs \notin Urls /\ cs \in dialect_connection_prompt_models
                    THEN UrlFor[cs]
                ELSE cs
    IN  IF text \in Urls
            THEN [exc |-> "none", url |-> text, message |-> <<>>]
            ELSE [exc |-> "InvalidUrlException", url |-> "None",
                  message |-> <<"ArgumentError">> \o MakeUrlMessage(text)]

\* SaBackend._connect_with_string
_connect_with_string(cs) ==
    /\ EnterOp("connect")
    /\ IF ConnectionExists
          THEN \* the message reads self.connection.engine.url
               /\ EndOp(IF connection = "None" THEN "AttributeError"
                        ELSE "ConnectionExistsException")
               /\ UNCHANGED backendVars
       ELSE IF _try_make_url(cs).exc # "none"
          THEN /\ EndOp(_try_make_url(cs).exc)
               /\ UNCHANGED backendVars
       ELSE LET url == _try_make_url(cs).url
                d == IF DriverOf(url) \in SaDialectValues
                         THEN DriverOf(url) ELSE "None"
                pd == IF d # "None" THEN PromptDialectFor(d) ELSE promptDialect
            IN  \/ \* _init_engine: the driver module is absent
                   /\ dialect' = d
                   /\ promptDialect' = pd
                   /\ UNCHANGED <<engine, connection, inspector>>
                   /\ EndOp("MissingModuleException")
                \/ \* make_connection raises SQLAlchemyError
                   /\ DisconnectEffect
                   /\ EndOp("ConnectionFailedException")
                \/ \* make_connection is interrupted
                   /\ dialect' = d
                   /\ promptDialect' = pd
                   /\ engine' = url
                   /\ UNCHANGED <<connection, inspector>>
                   /\ EndOp("KeyboardInterrupt")
                \/ /\ dialect' = d
                   /\ promptDialect' = pd
                   /\ engine' = url
                   /\ connection' = url
                   /\ inspector' = InspectorFor(d)
                   /\ EndOp("returned")

\* SaBackend.connect
Connect(cs) ==
    /\ _connect_with_string(cs)
    /\ UNCHANGED sideVars

\* SaBackend.execute up to the call of _spool_results
Execute(isSaQuery, script) ==
    /\ EnterOp("execute")
    /\ UNCHANGED <<sideVars, backendVars>>
    /\ IF ~isSaQuery
          THEN EndOp("SqlBackendMismatchException")
       ELSE IF engine = "None"
          THEN EndOp("DisconnectedException")
       ELSE LET r == NewManager(ManagerFor(dialect), script, connection)
            IN  IF r.exc # "none"
                    THEN EndOp(r.exc)
                    ELSE /\ pc' = "while"
                         /\ outcome' = "running"
                         /\ mgr' = r.mgr
                         /\ drv' = r.drv
                         /\ UNCHANGED orphans

\* execute() of a query this backend made, whatever the driver answers
ExecuteSaQuery ==
    /\ pc = "idle"
    /\ \E script \in Scripts(ManagerFor(dialect)) : Execute(TRUE, script)

\* execute() of a query that is not an SaQuery
ExecuteForeignQuery == Execute(FALSE, <<>>)

\* a fetchall() that leaves the last row behind
FetchAllButLast(set) == [j \in 1..(set.n - 1) |-> Row(1, j)]

\* CursorResult.fetchall() followed by list(map(tuple, ...))
FetchAll(set) == [j \in 1..set.n |-> Row(1, j)]

\* SaBackend.fetch_results_for on what the driver answers: a driver error
\* reaches it as SQLAlchemy's DBAPIError, fetchall() of a result without
\* rows raises SQLAlchemy's ResourceClosedError
fetch_results_for(conn, set) ==
    IF conn = "None"
        THEN [exc |-> "AttributeError", rows |-> <<>>]
    ELSE IF set.err \/ set.cols = <<>>
        THEN [exc |-> "SqlQueryException", rows |-> <<>>]
    ELSE [exc |-> "returned", rows |-> FetchAll(set)]

\* fetch_results_for(query), whatever the driver answers
FetchResultsFor(set) ==
    /\ pc = "idle"
    /\ pc' = "idle"
    /\ lastOp' = "fetch_results_for"
    /\ atExec' = [engine |-> engine, connection |-> connection]
    /\ outcome' = fetch_results_for(connection, set).exc
    /\ spool' = fetch_results_for(connection, set).rows
    /\ mgr' = NoManager
    /\ drv' = [script |-> <<set>>, pos |-> 1, fetched |-> Len(spool')]
    /\ table' = <<>>
    /\ pend' = "none"
    /\ endSignal' = "none"
    /\ mon' = NoMonitor
    /\ constructed' = <<>>
    /\ displayed' = <<>>
    /\ UNCHANGED <<sideVars, backendVars, orphans>>

\* a monitor thread whose execute() has been left
Orphaned(m) == [stopped |-> m.stopped]

\* the with block of execute() is left: __exit__ runs (an exception it
\* raises replaces the one in flight), the locals of _spool_results are
\* gone, and a monitor that is still alive goes on running
ExitScope(result) ==
    /\ pc' = "idle"
    /\ outcome' = IF ExitRaises(mgr) THEN "AttributeError" ELSE result
    /\ mgr' = ManagerExit(mgr)
    /\ orphans' = IF IsAlive(mon) THEN orphans \cup {Orphaned(mon)} ELSE orphans
    /\ mon' = NoMonitor
    /\ spool' = <<>>
    /\ table' = <<>>
    /\ UNCHANGED <<sideVars, backendVars, drv, pend, endSignal, constructed, displayed,
                   lastOp, atExec>>

\* ----------------------------------------------- SaBackend._spool_results
\* while query_manager.has_another_record_set
WhileHasAnother ==
    /\ pc = "while"
    /\ LET r == HasAnotherRecordSet(mgr, drv)
       IN  IF r.exc # "none"
               THEN /\ ExitScope(r.exc)
           ELSE IF ~r.ret
               THEN /\ ExitScope("returned")
           ELSE /\ pc' = "new"
                /\ mgr' = r.mgr
                /\ drv' = r.drv
                /\ UNCHANGED <<sideVars, backendVars, spoolVars, orphans, lastOp,
                               outcome, atExec>>

\* spool = []; monitor = SaSpoolMonitor(...); monitor.start()
StartMonitor(display_progress) ==
    /\ pc = "new"
    /\ spool' = <<>>
    /\ mon' = NewMonitor(display_progress)
    /\ endSignal' = "none"
    /\ pc' = "fetch"
    /\ UNCHANGED <<sideVars, backendVars, mgr, drv, table, pend, orphans,
                   constructed, displayed, lastOp, outcome, atExec>>

\* the exception is raised again without stopping the monitor
AfterFetchRaisedUnhandled(exc) ==
    IF exc \in {"RecordSetEnd", "ReturnsNoRecords"} THEN "mark_done" ELSE "reraise"

\* a set without columns does not end the fetch loop
AfterFetchRaisedRetries(exc) ==
    IF exc = "ReturnsNoRecords" THEN "fetch"
    ELSE IF exc = "RecordSetEnd" THEN "mark_done" ELSE "exc_stop"

\* where the spooling loop goes after a fetch_row that raised
AfterFetchRaised(exc) == IF IsEndOfSet(exc) THEN "mark_done" ELSE "exc_stop"

\* while record := query_manager.fetch_row(): spool.append(record)
FetchLoop ==
    /\ pc = "fetch"
    /\ LET r == FetchRow(mgr, drv)
       IN  /\ mgr' = r.mgr
           /\ drv' = r.drv
           /\ IF r.exc = "none"
                 THEN /\ spool' = Append(spool, r.row)
                      /\ UNCHANGED <<pc, pend, endSignal>>
                 ELSE /\ pc' = AfterFetchRaised(r.exc)
                      /\ endSignal' = IF IsEndOfSet(r.exc) THEN r.exc ELSE endSignal
                      /\ pend' = IF IsEndOfSet(r.exc) THEN pend ELSE r.exc
                      /\ UNCHANGED spool
    /\ UNCHANGED <<sideVars, backendVars, table, mon, orphans, constructed, displayed,
                   lastOp, outcome, atExec>>

\* KeyboardInterrupt raised while fetch_row waits for the driver
InterruptFetch ==
    /\ pc = "fetch"
    /\ pc' = AfterFetchRaised("KeyboardInterrupt")
    /\ pend' = "KeyboardInterrupt"
    /\ UNCHANGED <<sideVars, backendVars, mgr, drv, spool, table, endSignal, mon,
                   orphans, constructed, displayed, lastOp, outcome, atExec>>

\* monitor.stop() of either except block
HandlerStop ==
    /\ pc = "exc_stop"
    /\ mon' = [mon EXCEPT !.stopped = TRUE]
    /\ pc' = "exc_join"
    /\ UNCHANGED <<sideVars, backendVars, mgr, drv, spool, table, pend, endSignal,
                   orphans, constructed, displayed, lastOp, outcome, atExec>>

\* monitor.join() of either except block
HandlerJoin ==
    /\ pc = "exc_join"
    /\ JoinReturns(mon)
    /\ pc' = "reraise"
    /\ UNCHANGED <<sideVars, backendVars, mgr, drv, spoolVars, orphans, lastOp,
                   outcome, atExec>>

\* the `raise` of either except block
Reraise ==
    /\ pc = "reraise"
    /\ ExitScope(pend)

\* monitor.done = True; table = None
MarkDone ==
    /\ pc = "mark_done"
    /\ mon' = [mon EXCEPT !.done = TRUE]
    /\ table' = <<>>
    /\ pc' = "construct"
    /\ UNCHANGED <<sideVars, backendVars, mgr, drv, spool, pend, endSignal, orphans,
                   constructed, displayed, lastOp, outcome, atExec>>

\* if len(query_manager.columns) != 0
HasColumns(m) == Len(Columns(m)) # 0

\* the record set is built and rendered by construct_table
ConstructTable ==
    /\ pc = "construct"
    /\ IF HasColumns(mgr)
          THEN LET rs == [set |-> drv.pos,
                           rs |-> RecordSet(Columns(mgr), spool)]
               IN  /\ constructed' = Append(constructed, rs)
                   /\ table' = <<rs>>
          ELSE UNCHANGED <<constructed, table>>
    /\ pc' = "stop"
    /\ UNCHANGED <<sideVars, backendVars, mgr, drv, spool, pend, endSignal, mon,
                   orphans, displayed, lastOp, outcome, atExec>>

\* construct_table raises, or is interrupted
ConstructRaises(exc) ==
    /\ pc = "construct"
    /\ HasColumns(mgr)
    /\ pend' = exc
    /\ pc' = "exc_stop"
    /\ UNCHANGED <<sideVars, backendVars, mgr, drv, spool, table, endSignal, mon,
                   orphans, constructed, displayed, lastOp, outcome, atExec>>

\* monitor.stop() at the end of the iteration
Stop ==
    /\ pc = "stop"
    /\ mon' = [mon EXCEPT !.stopped = TRUE]
    /\ pc' = "join"
    /\ UNCHANGED <<sideVars, backendVars, mgr, drv, spool, table, pend, endSignal,
                   orphans, constructed, displayed, lastOp, outcome, atExec>>

\* monitor.join() at the end of the iteration
Join ==
    /\ pc = "join"
    /\ JoinReturns(mon)
    /\ pc' = "display"
    /\ UNCHANGED <<sideVars, backendVars, mgr, drv, spoolVars, orphans, lastOp,
                   outcome, atExec>>

\* the iteration ends without display_table
DisplayTableDropped ==
    /\ pc = "display"
    /\ pc' = "while"
    /\ UNCHANGED <<sideVars, backendVars, mgr, drv, spoolVars, orphans, lastOp,
                   outcome, atExec>>

\* if table is not None: display_table(table)
DisplayTable ==
    /\ pc = "display"
    /\ displayed' = displayed \o table
    /\ pc' = "while"
    /\ UNCHANGED <<sideVars, backendVars, mgr, drv, spool, table, pend, endSignal, mon,
                   orphans, constructed, lastOp, outcome, atExec>>

\* KeyboardInterrupt outside the two try blocks: while the driver is asked
\* for the next set, at monitor.done = True, while a join waits for the
\* monitor, while the table is printed
InterruptOutsideTry ==
    /\ pc \in {"while", "mark_done", "join", "exc_join", "display"}
    /\ pc \in {"join", "exc_join"} => IsAlive(mon)
    /\ IsAlive(mon) => Cardinality(orphans) < MaxOrphans
    /\ ExitScope("KeyboardInterrupt")

\* the current monitor's thread takes a step
MonitorRun ==
    /\ IsAlive(mon)
    /\ mon' = MonitorStep(mon)
    /\ mon' # mon
    /\ termCursor' = CursorAfter(mon, termCursor)
    /\ UNCHANGED <<detail, txn, structure, insps, disconnects, msgs, cachedFrom,
                   backendVars, pc, mgr, drv, spool, table, pend, endSignal,
                   orphans, constructed, displayed, lastOp, outcome, atExec>>

\* a monitor left behind by an earlier execute() comes to the end of run(),
\* show_cursor being the last call it makes: its while loop ends only once
\* __stopped is set
OrphanRun ==
    /\ \E o \in orphans :
          /\ o.stopped
          /\ orphans' = orphans \ {o}
    /\ termCursor' = show_cursor(termCursor)
    /\ UNCHANGED <<detail, txn, structure, insps, disconnects, msgs, cachedFrom,
                   backendVars, pc, mgr, drv, spoolVars, lastOp, outcome,
                   atExec>>

Next ==
    \/ \E cs \in ConnectionStrings : Connect(cs)
    \/ Disconnect
    \/ ExecuteSaQuery
    \/ ExecuteForeignQuery
    \/ \E set \in NativeSets(1) : FetchResultsFor(set)
    \/ WhileHasAnother
    \/ \E display_progress \in BOOLEAN : StartMonitor(display_progress)
    \/ FetchLoop
    \/ InterruptFetch
    \/ HandlerStop
    \/ HandlerJoin
    \/ Reraise
    \/ MarkDone
    \/ ConstructTable
    \/ \E exc \in {"TableError", "KeyboardInterrupt"} : ConstructRaises(exc)
    \/ Stop
    \/ Join
    \/ DisplayTable
    \/ InterruptOutsideTry
    \/ MonitorRun
    \/ OrphanRun

Spec == Init /\ [][Next]_vars

TypeOK ==
    /\ engine \in Urls \cup {"None"}
    /\ connection \in Urls \cup {"None"}
    /\ dialect \in SaDialectValues \cup {"None"}
    /\ Cardinality(orphans) <= MaxOrphans
    /\ BagCardinality(insps) <= MaxInspectors
    /\ disconnects \in 0..2
    /\ cachedFrom \in {"none", "latest", "earlier", "stale"}

\* ------------------------------------------- connection lifecycle, inspectors
\* The backend's connect / disconnect / invalidate_completions run against
\* the inspector threads they start. An inspector is [kind, pc, cur]: cur
\* tells the thread self.__inspector refers to, pc is
\* "start" until refresh_structure has made its own connection, "loading"
\* while it queries through it.

\* whose structure the cache holds once self.__inspector is assigned anew:
\* what the cache holds is no longer the latest inspector's
Superseded(c) == IF c = "none" THEN "none" ELSE "earlier"

\* whose structure the cache holds once inspector i has handed over its own
DeliveredBy(i, c) ==
    IF i.cur THEN "latest"
    ELSE IF c \in {"latest", "stale"} THEN "stale"
    ELSE "earlier"

\* <inspector>(parent=self) followed by start()
NewInspector(kind) == [kind |-> kind, pc |-> "start", cur |-> TRUE]

\* the threads alive once self.__inspector is assigned anew: none of them is
\* the backend's inspector any longer
Retired(threads) ==
    LET old == {[i EXCEPT !.cur = FALSE] : i \in BagToSet(threads)}
    IN  [e \in old |->
            CopiesIn(e, threads) + CopiesIn([e EXCEPT !.cur = TRUE], threads)]

\* self.__inspector = inspector_type(parent=self); self.__inspector.start()
StartInspector(kind) == Retired(insps) (+) SetToBag({NewInspector(kind)})

\* the text of the exception connect() raises
ConnectText(cs, exc) ==
    CASE exc = "InvalidUrlException" -> _try_make_url(cs).message
      [] exc = "ConnectionExistsException" ->
            <<"A connection has already been established with", connection>>
      [] exc = "ConnectionFailedException" ->
            <<"driver message", _try_make_url(cs).url>>
      [] OTHER -> <<>>

\* SaBackend.connect with the inspector it starts; the disconnect() of a
\* failed connection attempt clears the completions
ConnectAndInspect(cs) ==
    /\ BagCardinality(insps) < MaxInspectors
    /\ _connect_with_string(cs)
    /\ detail' = ConnectText(cs, outcome')
    /\ insps' = IF outcome' = "returned"
                    THEN StartInspector(inspector')
                    ELSE insps
    /\ structure' = IF outcome' = "ConnectionFailedException"
                        THEN "None" ELSE structure
    /\ cachedFrom' = IF outcome' = "ConnectionFailedException" THEN "none"
                     ELSE IF outcome' = "returned" THEN Superseded(cachedFrom)
                     ELSE cachedFrom
    /\ disconnects' = 0
    /\ UNCHANGED <<txn, msgs, termCursor>>

\* SaBackend.invalidate_completions
InvalidateCompletions ==
    /\ BagCardinality(insps) < MaxInspectors
    /\ EnterOp("invalidate_completions")
    /\ EndOp("returned")
    /\ IF engine = "None"
          THEN UNCHANGED <<inspector, insps, cachedFrom>>
          ELSE /\ inspector' = InspectorFor(dialect)
               /\ insps' = StartInspector(InspectorFor(dialect))
               /\ cachedFrom' = Superseded(cachedFrom)
    /\ disconnects' = 0
    /\ detail' = <<>>
    /\ UNCHANGED <<engine, connection, dialect, promptDialect, structure, txn,
                   msgs, termCursor>>

\* close() / dispose() called whatever the attribute holds
ClosesUnguarded(attribute) == TRUE

\* if self.__active_connection is not None / if self.__engine is not None
Closes(attribute) == attribute # "None"

\* how disconnect() ends: close() or dispose() of None is an AttributeError
DisconnectResult ==
    IF \/ Closes(connection) /\ connection = "None"
       \/ Closes(engine) /\ engine = "None"
        THEN "AttributeError" ELSE "returned"

\* disconnect(), its first statement: prompt.clear_completions()
DisconnectClear ==
    /\ EnterOp("disconnect")
    /\ pc' = "disconnect"
    /\ outcome' = "running"
    /\ structure' = "None"
    /\ cachedFrom' = "none"
    /\ disconnects' = IF disconnects < 2 THEN disconnects + 1 ELSE 2
    /\ detail' = <<>>
    /\ UNCHANGED <<backendVars, mgr, drv, orphans, txn, insps, msgs, termCursor>>

\* disconnect(), the rest of it
DisconnectClose ==
    /\ pc = "disconnect"
    /\ pc' = "idle"
    /\ outcome' = DisconnectResult
    /\ IF DisconnectResult = "returned"
          THEN DisconnectEffect
          ELSE UNCHANGED backendVars
    /\ UNCHANGED <<mgr, drv, spoolVars, orphans, lastOp, atExec, sideVars>>

\* the threads that hold a connection made by make_connection
InspectorConnections ==
    BagCardinality([i \in {j \in BagToSet(insps) : j.pc = "loading"} |-> insps[i]])

\* refresh_structure, its first statement: self.parent.make_connection();
\* without an engine it raises, run() warns and the thread ends
InspectorConnects ==
    /\ \E i \in BagToSet(insps) :
          /\ i.pc = "start"
          /\ insps' = IF engine = "None"
                          THEN insps (-) SetToBag({i})
                          ELSE (insps (-) SetToBag({i}))
                               (+) SetToBag({[i EXCEPT !.pc = "loading"]})
    /\ UNCHANGED <<backendVars, pc, mgr, drv, spoolVars, orphans, lastOp,
                   outcome, atExec, detail, txn, structure, disconnects,
                   msgs, termCursor, cachedFrom>>

\* refresh_structure hands the structure to the prompt and the thread ends
InspectorDelivers ==
    /\ \E i \in BagToSet(insps) :
          /\ i.pc = "loading"
          /\ structure' = i.kind
          /\ cachedFrom' = DeliveredBy(i, cachedFrom)
          /\ insps' = insps (-) SetToBag({i})
    /\ UNCHANGED <<backendVars, pc, mgr, drv, spoolVars, orphans, lastOp,
                   outcome, atExec, detail, txn, disconnects, msgs, termCursor>>

\* an inspector whose failure disconnects the backend
InspectorFailsDisconnects ==
    /\ \E i \in BagToSet(insps) :
          /\ i.pc = "loading"
          /\ insps' = insps (-) SetToBag({i})
    /\ DisconnectEffect
    /\ UNCHANGED <<pc, mgr, drv, spoolVars, orphans, lastOp,
                   outcome, atExec, detail, txn, structure, disconnects,
                   msgs, termCursor, cachedFrom>>

\* a query of refresh_structure fails: run() warns and the thread ends
InspectorFails ==
    /\ \E i \in BagToSet(insps) :
          /\ i.pc = "loading"
          /\ insps' = insps (-) SetToBag({i})
    /\ UNCHANGED <<backendVars, pc, mgr, drv, spoolVars, orphans, lastOp,
                   outcome, atExec, detail, txn, structure, disconnects,
                   msgs, termCursor, cachedFrom>>

\* SaBackend.inspecting, once an inspector was started:
\* self.__inspector.is_alive()
inspecting == \E i \in BagToSet(insps) : i.cur

\* native connections made from the backend's engines and still open
OpenConnections ==
    (IF connection # "None" THEN 1 ELSE 0) + InspectorConnections

\* SaBackend._get_status_connection_detail
_get_status_connection_detail(url) == <<"host and database of", url>>

\* SaBackend.get_status
get_status ==
    [connected |-> connection # "None",
     connection_detail |->
        IF engine = "None" THEN <<>> ELSE _get_status_connection_detail(engine),
     dialect |-> IF engine = "None" THEN "None" ELSE DriverOf(engine)]

ConnNext ==
    \/ \E cs \in ConnectionStrings : ConnectAndInspect(cs)
    \/ InvalidateCompletions
    \/ DisconnectClear
    \/ DisconnectClose
    \/ InspectorConnects
    \/ InspectorDelivers
    \/ InspectorFails

ConnSpec == Init /\ [][ConnNext]_vars

\* ------------------------------------------------ the query manager contract
\* One manager driven through its interface by a caller holding an open
\* connection: the constructor, then has_another_record_set and fetch_row
\* in any order (fetch_row not again once it has raised, until
\* has_another_record_set was asked), then __exit__ when the with block is
\* left. pc is "m_new"
\* after the constructor, "m_rows" while rows of a set are fetched, "m_end"
\* when fetch_row has signalled the end of a set, "m_done" when
\* has_another_record_set was false and "m_raised" while an exception leaves
\* the with block.
ManagerKinds ==
    {"DefaultManager", "MsSqlManager", "MySqlManager", "OracleManager",
     "PostgresManager", "SqliteManager"}

MgrPcs == {"m_new", "m_rows", "m_end", "m_done", "m_raised"}

BatchesByLen == [k \in 0..MaxBatch |-> ScriptsOfLen(k)]

\* the native results of a text of up to MaxBatch statements / result sets;
\* the result of connection.execute (DefaultManager) is one set, an Oracle
\* cursor can hold further sets a PL/SQL block returned implicitly
Batches(kind) ==
    IF kind \in SplittingManagers
        THEN UNION {BatchesByLen[k] : k \in 0..MaxBatch}
    ELSE IF kind = "DefaultManager"
        THEN BatchesByLen[1]
    ELSE UNION {BatchesByLen[k] : k \in 1..MaxBatch}

\* a connection of the dialect whose manager is `kind`
ConnectionOf(kind) ==
    CHOOSE u \in Urls :
        ManagerFor(IF DriverOf(u) \in SaDialectValues
                       THEN DriverOf(u) ELSE "None") = kind

\* the message text of the driver's error for native set / statement i
DriverMessage(i) == "driver message " \o ToString(i)

\* the text each manager gives the SqlQueryException it raises
MessageFor(kind, i) ==
    CASE kind = "MsSqlManager" -> <<"[sqlstate]", DriverMessage(i)>>
      [] kind = "SqliteManager" ->
            <<"[errorname]", DriverMessage(i), "(errorcode)">>
      [] OTHER -> <<DriverMessage(i)>>

\* the text of an exception that leaves a manager call at native set i
ExcText(kind, exc, i) ==
    IF exc = "SqlQueryException" THEN MessageFor(kind, i)
    ELSE IF exc = "DriverError" THEN <<DriverMessage(i)>>
    ELSE <<>>

\* connection.rollback() / commit() calls of a constructor that raises
TxnOfFailedInit(kind, exc) ==
    IF kind = "DefaultManager" /\ exc = "SqlQueryException"
        THEN <<"rollback">> ELSE <<>>

\* an __exit__ that commits only when no statement has failed
TxnOfExitUnlessError(m) ==
    IF m.kind \in SplittingManagers /\ ~m.err THEN <<"commit">> ELSE <<>>

\* connection.rollback() / commit() calls of __exit__
TxnOfExit(m) ==
    IF m.kind \in SplittingManagers THEN <<"commit">> ELSE <<>>

\* the messages native set i brings: message k of set i is <<i, k>>
Arriving(arrive, i) == [k \in 1..arrive[i] |-> <<i, k>>]

\* how many messages each native set of a script brings: none, or
\* MaxMessages, with a set the T-SQL driver answers without error
Arrivals(kind, script) ==
    IF kind = "MsSqlManager"
        THEN {a \in [1..Len(script) -> {0, MaxMessages}] :
                 \A i \in 1..Len(script) : script[i].err => a[i] = 0}
    ELSE {[i \in 1..Len(script) |-> 0]}

\* cursor().execute(query): the cursor holds the messages of the first set
ExecuteMessages(arrive) ==
    [arrive |-> arrive,
     pending |-> IF arrive = <<>> THEN <<>> ELSE Arriving(arrive, 1),
     shown |-> <<>>]

\* MsSqlManager._print_all_messages
_print_all_messages(ms) ==
    [ms EXCEPT !.shown = ms.shown \o ms.pending, !.pending = <<>>]

\* cursor.nextset() that reaches native set i: the messages it brings take
\* the place of cursor.messages, which is kept when it brings none
NextSetMessages(ms, i) ==
    IF ms.arrive[i] = 0 THEN ms
    ELSE [ms EXCEPT !.pending = Arriving(ms.arrive, i)]

\* a _next_record_set that goes to nextset() without printing
RECURSIVE _next_record_set_silent(_, _)
_next_record_set_silent(d, ms) ==
    IF d.pos >= Len(d.script) \/ d.script[d.pos + 1].err THEN ms
    ELSE LET d2 == [d EXCEPT !.pos = d.pos + 1, !.fetched = 0]
             ms2 == NextSetMessages(ms, d.pos + 1)
         IN  IF Description(d2) = <<>> THEN _next_record_set_silent(d2, ms2)
             ELSE ms2

\* MsSqlManager._next_record_set, repeated by has_another_record_set while
\* it raises ReturnsNoRecords: the messages side of NextRecordSet
RECURSIVE _next_record_set(_, _)
_next_record_set(d, ms) ==
    LET printed == _print_all_messages(ms)
    IN  IF d.pos >= Len(d.script) \/ d.script[d.pos + 1].err THEN printed
        ELSE LET d2 == [d EXCEPT !.pos = d.pos + 1, !.fetched = 0]
                 ms2 == NextSetMessages(printed, d.pos + 1)
             IN  IF Description(d2) = <<>> THEN _next_record_set(d2, ms2)
                 ELSE ms2

\* MsSqlManager.has_another_record_set: what becomes of the messages
HasAnotherMessages(m, d, ms) ==
    IF m.kind # "MsSqlManager" THEN ms
    ELSE IF m.flag THEN _next_record_set(d, _print_all_messages(ms))
    ELSE _print_all_messages(ms)

mgrIdle == <<termCursor, cachedFrom, backendVars, table, pend, mon, orphans, constructed, displayed,
             atExec, structure, insps, disconnects>>

\* query_manager_for_dialect[...](connection, query, self)
MgrConstruct(kind, script) ==
    /\ pc = "idle"
    /\ lastOp' = "manager"
    /\ spool' = <<>>
    /\ endSignal' = "none"
    /\ LET r == NewManager(kind, script, ConnectionOf(kind))
       IN  /\ mgr' = r.mgr
           /\ drv' = r.drv
           /\ IF r.exc = "none"
                 THEN /\ pc' = "m_new"
                      /\ outcome' = "running"
                      /\ detail' = <<>>
                      /\ txn' = <<>>
                      /\ \E arrive \in Arrivals(kind, script) :
                            msgs' = ExecuteMessages(arrive)
                 ELSE \* the with block is never entered
                      /\ pc' = "idle"
                      /\ outcome' = r.exc
                      /\ detail' = ExcText(kind, r.exc, 1)
                      /\ txn' = TxnOfFailedInit(kind, r.exc)
                      /\ msgs' = NoMessages
    /\ UNCHANGED mgrIdle

\* query_manager.has_another_record_set
MgrHasAnother ==
    /\ pc \in {"m_new", "m_rows", "m_end"}
    /\ LET r == HasAnotherRecordSet(mgr, drv)
       IN  /\ mgr' = r.mgr
           /\ drv' = r.drv
           /\ IF r.exc # "none"
                 THEN /\ pc' = "m_raised"
                      /\ outcome' = r.exc
                      /\ detail' = ExcText(mgr.kind, r.exc, r.drv.pos + 1)
              ELSE /\ pc' = IF r.ret THEN "m_rows" ELSE "m_done"
                   /\ UNCHANGED <<outcome, detail>>
    /\ msgs' = HasAnotherMessages(mgr, drv, msgs)
    /\ spool' = <<>>
    /\ endSignal' = "none"
    /\ UNCHANGED <<mgrIdle, lastOp, txn>>

\* SqliteManager / PostgresManager.fetch_row reads
\* self.__statements[self.__current_statement] past the last statement
NoStatementLeft(m, d) ==
    m.kind \in SplittingManagers /\ m.cursor = "None" /\ d.pos >= Len(d.script)

\* query_manager.fetch_row()
MgrFetchRow ==
    /\ pc \in {"m_new", "m_rows"}
    /\ IF NoStatementLeft(mgr, drv)
          THEN /\ pc' = "m_raised"
               /\ outcome' = "IndexError"
               /\ detail' = <<>>
               /\ UNCHANGED <<mgr, drv, spool, endSignal>>
       ELSE LET r == FetchRow(mgr, drv)
            IN  /\ mgr' = r.mgr
                /\ drv' = r.drv
                /\ IF r.exc = "none"
                      THEN /\ pc' = "m_rows"
                           /\ spool' = Append(spool, r.row)
                           /\ UNCHANGED <<outcome, detail, endSignal>>
                   ELSE IF IsEndOfSet(r.exc)
                      THEN /\ pc' = "m_end"
                           /\ endSignal' = r.exc
                           /\ UNCHANGED <<outcome, detail, spool>>
                   ELSE /\ pc' = "m_raised"
                        /\ outcome' = r.exc
                        /\ detail' = ExcText(mgr.kind, r.exc, drv.pos + 1)
                        /\ UNCHANGED <<spool, endSignal>>
    /\ UNCHANGED <<mgrIdle, lastOp, txn, msgs>>

\* <manager>.__exit__ as the with block is left, by its end, by an exception
\* of the manager or by one raised inside the block; the cursor and what was
\* fetched go with it
MgrExit ==
    /\ pc \in MgrPcs
    /\ pc' = "idle"
    /\ mgr' = ManagerExit(mgr)
    /\ txn' = txn \o TxnOfExit(mgr)
    /\ outcome' = IF ExitRaises(mgr) THEN "AttributeError"
                  ELSE IF pc = "m_raised" THEN outcome
                  ELSE IF pc = "m_done" THEN "returned"
                  ELSE "KeyboardInterrupt"
    /\ drv' = NoDriver
    /\ msgs' = NoMessages
    /\ spool' = <<>>
    /\ endSignal' = "none"
    /\ UNCHANGED <<mgrIdle, lastOp, detail>>

MgrNext ==
    \/ \E kind \in ManagerKinds : \E script \in Batches(kind) :
           MgrConstruct(kind, script)
    \/ MgrHasAnother
    \/ MgrFetchRow
    \/ MgrExit

MgrSpec == Init /\ [][MgrNext]_vars

\* ------------------------------------------------------------ properties
\* the record sets of a script's native sets that have a description
RECURSIVE ExpectedFrom(_, _)
ExpectedFrom(script, i) ==
    IF i > Len(script) THEN <<>>
    ELSE IF script[i].cols = <<>> THEN ExpectedFrom(script, i + 1)
    ELSE <<[set |-> i,
            rs |-> RecordSet(script[i].cols,
                             [j \in 1..script[i].n |-> Row(i, j)])]>>
         \o ExpectedFrom(script, i + 1)

Expected(script) == ExpectedFrom(script, 1)

ExecuteReturned == pc = "idle" /\ lastOp = "execute" /\ outcome = "returned"

C3_DisplayedInOrder ==
    /\ \A k \in 1..Len(displayed) :
          /\ k <= Len(constructed) /\ displayed[k] = constructed[k]
          /\ k > 1 => displayed[k - 1].set < displayed[k].set
    /\ (pc = "display" /\ table # <<>>) => table[1].set = drv.pos

AliveMonitors == Cardinality(orphans) + (IF IsAlive(mon) THEN 1 ELSE 0)

C10_ConnectRefused ==
    [][((\E cs \in ConnectionStrings : Connect(cs)) /\ connection # "None")
          => /\ outcome' = "ConnectionExistsException"
             /\ UNCHANGED <<engine, connection, dialect, inspector>>]_vars

C10_Refused ==
    /\ pc = "idle" /\ lastOp = "connect"
    /\ outcome = "ConnectionExistsException" /\ connection # "None"

\* execute() ended before anything was done: no manager, no monitor, nothing
\* displayed, the backend as it was
C14_NothingDone ==
    /\ pc' = "idle"
    /\ mgr' = NoManager
    /\ mon' = NoMonitor
    /\ displayed' = <<>>
    /\ UNCHANGED backendVars

\* C14: execute() of a query that is not an SaQuery raises
\* SqlBackendMismatchException, execute() while no connection is open raises
\* DisconnectedException, and either way no manager is constructed, no
\* monitor started, nothing displayed and the backend state is unchanged.
C14_ExecuteRefused ==
    /\ [][ExecuteForeignQuery
             => (outcome' = "SqlBackendMismatchException" /\ C14_NothingDone)]_vars
    /\ [][(connection = "None" /\ ExecuteSaQuery)
             => (outcome' = "DisconnectedException" /\ C14_NothingDone)]_vars

\* C18: once the with-scope of execute() has been left, normally or by an
\* exception, the native cursor the manager opened is closed.
C18_CursorClosedAfterScope ==
    (pc = "idle" /\ lastOp = "execute" /\ mgr.kind # "None")
    => mgr.native # "open"

\* the text of an exception quotes `text`
Carries(message, text) == \E k \in 1..Len(message) : message[k] = text

\* what connect() leaves behind when it fails with a connection-kind error
C11_FailureLeaves ==
    /\ outcome' \in {"InvalidUrlException", "ConnectionExistsException"}
          => UNCHANGED backendVars
    /\ outcome' = "ConnectionFailedException"
          => (connection' = "None" /\ engine' = "None" /\ dialect' = "None"
              /\ ~ConnectionExists')

\* the steps of connect(), every ConnectAndInspect step among them: the
\* main thread starts and ends idle in connect and no inspector thread moves
ConnectStep ==
    /\ lastOp' = "connect" /\ pc = "idle" /\ pc' = "idle"
    /\ insps' = insps \/ BagCardinality(insps') > BagCardinality(insps)

\* the texts that are neither an alias nor a url
PlainNames == ConnectionStrings \ (DOMAIN Aliases \cup Urls)

C12_DisconnectIdempotent ==
    [][(DisconnectClear \/ DisconnectClose)
         => /\ outcome' \in {"running", "returned"}
            /\ pc' = "idle" => (outcome' = "returned" /\ connection' = "None")]_vars

C12_DisconnectedTwice ==
    /\ pc = "idle" /\ lastOp = "disconnect" /\ outcome = "returned"
    /\ disconnects = 2 /\ connection = "None"

\* the backend and the prompt after a disconnect
C13_Disconnected ==
    /\ connection = "None"
    /\ engine = "None"
    /\ dialect = "None"
    /\ promptDialect = "GENERIC"
    /\ structure = "None"
    /\ get_status = [connected |-> FALSE, connection_detail |-> <<>>,
                     dialect |-> "None"]

\* C13: at the return of disconnect() the connection is closed, the engine
\* disposed, the dialect unset with the prompt on GENERIC, the prompt's cached
\* structure cleared, and get_status() reports an unconnected backend.
C13_DisconnectLeavesNothing ==
    [][DisconnectClose => C13_Disconnected']_vars

\* C15: at most one native connection made from the backend's engine is open
\* at any time, and none while the backend is disconnected.
C15_AtMostOneConnection ==
    /\ OpenConnections <= 1
    /\ connection = "None" => OpenConnections = 0


\* the driver rejects the next statement / native set sent to or asked of it
Rejects(d) == d.pos < Len(d.script) /\ d.script[d.pos + 1].err

\* the caller is handed SqlQueryException with the driver's text for set i,
\* the connection rolled back
RejectionDelivered(i) ==
    /\ outcome' = "SqlQueryException"
    /\ Carries(detail', DriverMessage(i))
    /\ Carries(txn', "rollback")

\* C16: whichever manager call meets a query the driver rejects (the
\* constructor, fetch_row of a splitting manager as it executes the next
\* statement, has_another_record_set of the T-SQL and MySQL managers as it
\* asks for the next set), the caller receives SqlQueryException carrying
\* the driver's message text and the connection has been rolled back by then.
C16_RejectionRolledBack ==
    /\ [][\A kind \in ManagerKinds : \A script \in Batches(kind) :
            (MgrConstruct(kind, script) /\ kind \notin SplittingManagers
                /\ script[1].err) => RejectionDelivered(1)]_vars
    /\ [][(MgrFetchRow /\ mgr.kind \in SplittingManagers
                /\ mgr.cursor = "None" /\ Rejects(drv))
            => RejectionDelivered(drv.pos + 1)]_vars
    /\ [][(MgrHasAnother /\ mgr.kind \in {"MsSqlManager", "MySqlManager"}
                /\ mgr.flag /\ Rejects(drv))
            => RejectionDelivered(drv.pos + 1)]_vars

\* C17: once the constructor has returned, and before any
\* has_another_record_set or fetch_row call, the query (the first statement
\* of a splitting manager) has been sent to the driver.
C17_ExecutionBegunAtConstruct ==
    (pc = "m_new" /\ Len(drv.script) > 0) => drv.pos >= 1

\* the native set fetch_row reads from: the one the cursor stands on, or the
\* statement a splitting manager executes first
ActiveSet(m, d) ==
    IF m.kind \in SplittingManagers /\ m.cursor = "None"
        THEN d.pos + 1 ELSE d.pos

ActiveSetHasNoColumns(m, d) ==
    /\ ActiveSet(m, d) \in 1..Len(d.script)
    /\ ~d.script[ActiveSet(m, d)].err
    /\ d.script[ActiveSet(m, d)].cols = <<>>

\* C19: fetch_row called on an active result set that has no columns raises
\* ReturnsNoRecords and returns no row, for every manager.
C19_NoColumnsRaisesReturnsNoRecords ==
    [][(MgrFetchRow /\ ActiveSetHasNoColumns(mgr, drv))
        => (pc' = "m_end" /\ endSignal' = "ReturnsNoRecords"
            /\ spool' = spool)]_vars

\* the native sets after the one the cursor stands on that have columns
LaterWithColumns(d) ==
    {i \in (d.pos + 1)..Len(d.script) : d.script[i].cols # <<>>}

\* the first of them, or the end of the driver's sets when there is none
AdvanceTarget(d) ==
    IF LaterWithColumns(d) = {} THEN Len(d.script)
    ELSE CHOOSE i \in LaterWithColumns(d) : \A j \in LaterWithColumns(d) : i <= j

\* the driver answers every nextset() up to the target without an error
AdvancesCleanly(d) ==
    \A i \in (d.pos + 1)..AdvanceTarget(d) : ~d.script[i].err

\* C20: has_another_record_set of the T-SQL and MySQL managers, called after
\* the rows of the current set were fetched, moves the native cursor past
\* every set without columns; it returns true standing on the next set that
\* has columns, with `columns` those of that set, and false, standing on the
\* driver's last set, when no further set has columns.
C20_AdvancesToNextSetWithColumns ==
    [][(MgrHasAnother /\ pc = "m_end"
            /\ mgr.kind \in {"MsSqlManager", "MySqlManager"}
            /\ AdvancesCleanly(drv))
        => /\ drv'.pos = AdvanceTarget(drv)
           /\ IF LaterWithColumns(drv) # {}
                 THEN /\ pc' = "m_rows"
                      /\ Columns(mgr') = drv.script[AdvanceTarget(drv)].cols
                      /\ drv'.fetched = 0
                 ELSE pc' = "m_done"]_vars

\* has_another_record_set has skipped native set 2, which has no columns,
\* and stands on set 3 with its columns
C20_SkippedToThirdSet ==
    /\ pc = "m_rows"
    /\ mgr.kind \in {"MsSqlManager", "MySqlManager"}
    /\ mgr.flag
    /\ drv.pos = 3
    /\ drv.script[2].cols = <<>>
    /\ Columns(mgr) = ColumnNames(3)


\* C21: when the Oracle cursor holds several native result sets, the
\* spooling loop is not told that there is no further set while a set with
\* columns has not been surfaced.
C21_OracleSurfacesEverySet ==
    (pc = "m_done" /\ mgr.kind = "OracleManager")
        => LaterWithColumns(drv) = {}


\* every statement of the text is accepted and returns rows
AllReturnRows(script) ==
    \A i \in 1..Len(script) : ~script[i].err /\ script[i].cols # <<>>

ZeroStatements ==
    /\ lastOp = "execute"
    /\ mgr.kind \in SplittingManagers
    /\ drv.script = <<>>
    /\ atExec.connection # "None"

\* C23: execute() of a text that splits into no statement starts no spool
\* monitor, constructs and displays no table, and, unless the user
\* interrupts it, returns without an exception.
C23_ZeroStatementsQuiet ==
    ZeroStatements
    => /\ mon = NoMonitor
       /\ constructed = <<>>
       /\ displayed = <<>>
       /\ pc \in {"while", "idle"}
       /\ outcome \in {"running", "returned", "KeyboardInterrupt"}

C23_EmptyTextReturned == ZeroStatements /\ ExecuteReturned


\* fetch_row of the manager in use has been called
FetchRowCalled == pc = "m_end" \/ drv.fetched > 0

\* C24: the Default manager has its columns from the constructor on and
\* never changes them, and its has_another_record_set is true as long as
\* fetch_row was not called and false afterwards, whatever the result holds.
C24_DefaultOneRecordSet ==
    /\ []((mgr.kind = "DefaultManager" /\ pc \in MgrPcs)
            => Columns(mgr) = drv.script[1].cols)
    /\ [][(MgrHasAnother /\ mgr.kind = "DefaultManager")
            => /\ pc' \in {"m_rows", "m_done"}
               /\ pc' = "m_rows" <=> ~FetchRowCalled]_vars

\* has_another_record_set was false after one row of a result that holds
\* more
C24_FalseWithRowsLeft ==
    /\ mgr.kind = "DefaultManager"
    /\ pc = "m_done"
    /\ drv.fetched > 0
    /\ drv.fetched < drv.script[1].n


\* an exception leaves refresh_structure: a query of the inspector fails, or
\* make_connection finds no engine
RefreshStructureRaises ==
    InspectorFails \/ (engine = "None" /\ InspectorConnects)

\* the thread that ends is the one self.__inspector refers to
CurrentInspectorEnds ==
    \E i \in BagToSet(insps) :
        i.cur /\ CopiesIn(i, insps') < CopiesIn(i, insps)

\* C25: an exception raised inside refresh_structure stays in the inspector
\* thread: the main thread, the operation it is in and the result of the
\* last one are untouched, the backend keeps its engine, connection and
\* dialect, the thread ends, and when it was the backend's inspector
\* `inspecting` is false from then on.
C25_InspectorFailureIsQuiet ==
    [][RefreshStructureRaises
        => /\ UNCHANGED <<backendVars, pc, lastOp, outcome, detail>>
           /\ BagCardinality(insps') = BagCardinality(insps) - 1
           /\ CurrentInspectorEnds => ~inspecting']_vars

\* connect() returned, its inspector has ended without delivering a
\* structure, and the backend is still connected
C25_FailedInspectorGone ==
    /\ pc = "idle" /\ lastOp = "connect" /\ outcome = "returned"
    /\ connection # "None"
    /\ structure = "None"
    /\ ~inspecting


\* fetch_results_for has been called on a backend that holds a connection
FetchedResults ==
    pc = "idle" /\ lastOp = "fetch_results_for" /\ atExec.connection # "None"

\* C26: fetch_results_for on a connected backend starts no spool monitor and
\* displays nothing; when the driver rejects the query it raises
\* SqlQueryException, and for a query with a result set it returns all rows
\* of that set, in the order the server sent them.
C26_FetchResultsFor ==
    FetchedResults
    => /\ mon = NoMonitor
       /\ displayed = <<>>
       /\ drv.script[1].err => outcome = "SqlQueryException"
       /\ (~drv.script[1].err /\ drv.script[1].cols # <<>>)
             => /\ outcome = "returned"
                /\ Len(spool) = drv.script[1].n
                /\ \A j \in 1..Len(spool) : spool[j] = Row(1, j)

\* fetch_results_for has returned the MaxRows rows of a result set
C26_AllRowsReturned ==
    FetchedResults /\ outcome = "returned" /\ Len(spool) = MaxRows


\* ------------------------------------------------------ top-level dispatch
\* What the orchestrator does with the exception that left execute().

\* the classes of sql/exceptions that derive from SqlException in the files
\* present: directly or through SqlBackendException / DialectException
SqlExceptionSubclasses ==
    {"SqlBackendException", "RecordSetEnd", "ReturnsNoRecords",
     "DialectException", "InvalidUrlException", "MissingModuleException"}

\* the kinds whose defining class (SqlQueryException, SqlConnectionException)
\* is only imported: query-kind and connection-kind are known kinds, the
\* mismatch-kind is not
KnownKindsDeclared ==
    {"SqlQueryException", "DisconnectedException",
     "ConnectionExistsException", "ConnectionFailedException"}

\* isinstance(exc, SqlException)
IsSqlException(exc) == exc \in SqlExceptionSubclasses \cup KnownKindsDeclared

\* the exceptions that derive from BaseException without deriving from
\* Exception
NotAnException == {"KeyboardInterrupt", "SystemExit", "GeneratorExit"}

\* a dispatch that hands every exception to display_exception as unhandled
_handle_query_sql_unhandled(exc) ==
    IF exc = "returned" THEN [shown |-> "nothing", raised |-> "none"]
    ELSE IF exc = "KeyboardInterrupt" THEN [shown |-> "info", raised |-> "none"]
    ELSE IF exc \notin NotAnException
        THEN [shown |-> "traceback", raised |-> "none"]
    ELSE [shown |-> "nothing", raised |-> exc]

\* SqlTerm._handle_query_sql, from how execute() ended: what reaches the
\* display ("short": display_exception, "info": display_info,
\* "traceback": display_exception with unhandled=True) and what it raises
_handle_query_sql(exc) ==
    IF exc = "returned" THEN [shown |-> "nothing", raised |-> "none"]
    ELSE IF IsSqlException(exc) THEN [shown |-> "short", raised |-> "none"]
    ELSE IF exc = "KeyboardInterrupt" THEN [shown |-> "info", raised |-> "none"]
    ELSE IF exc \notin NotAnException
        THEN [shown |-> "traceback", raised |-> "none"]
    ELSE [shown |-> "nothing", raised |-> exc]

\* SqlTerm.repl around handle_command: TRUE when the loop goes on to the
\* next get_command
repl(exc) == _handle_query_sql(exc).raised \in {"none", "KeyboardInterrupt"}

\* execute() has been left by an exception
ExecuteRaised ==
    pc = "idle" /\ lastOp = "execute" /\ outcome \notin {"returned", "none"}

\* C27 as claimed: every exception that leaves execute() is shown as a short
\* "Kind: message" line when it is a known SQL exception kind and as a full
\* traceback otherwise, and the REPL goes on to the next command.
C27_ShortOrTraceback ==
    ExecuteRaised
    => /\ repl(outcome)
       /\ _handle_query_sql(outcome).shown =
             IF IsSqlException(outcome) THEN "short" ELSE "traceback"

\* C27 as amended: a KeyboardInterrupt that leaves execute() is shown as the
\* info line " KeyboardInterrupt"; every other exception is shown as a short
\* "Kind: message" line when it is a known SQL exception kind and as a full
\* traceback otherwise; in every case the REPL goes on to the next command.
C27_ShortInfoOrTraceback ==
    ExecuteRaised
    => /\ repl(outcome)
       /\ _handle_query_sql(outcome).shown =
             IF outcome = "KeyboardInterrupt" THEN "info"
             ELSE IF IsSqlException(outcome) THEN "short" ELSE "traceback"

\* a query the driver rejected has been shown as a short line
C27_QueryErrorShownShort ==
    /\ ExecuteRaised
    /\ outcome = "SqlQueryException"
    /\ _handle_query_sql(outcome).shown = "short"


\* ------------------------------------------------------ CSV table backend
\* CsvBackend.construct_table as a function of the record set, with text as
\* a sequence of characters. A field is [t, v]: t is "none" for None, "int"
\* or "str", v the characters str(field) gives (<<>> for None).

NoneField == [t |-> "none", v |-> <<>>]
IntField(digits) == [t |-> "int", v |-> digits]
StrField(chars) == [t |-> "str", v |-> chars]

\* the cells a row is drawn from: None, 1, "x", "y", "," and a double quote
CsvFields ==
    {NoneField, IntField(<<"1">>), StrField(<<"x">>), StrField(<<"y">>),
     StrField(<<",">>), StrField(<<"\"">>)}

\* the column lists a record set is drawn from
CsvColumns ==
    {<<StrField(<<"a">>), StrField(<<"b">>)>>,
     <<StrField(<<"a">>), StrField(<<",">>)>>}

CsvRows(columns) == [1..Len(columns) -> CsvFields]

\* the lists of k records handed to the table backend with given columns
CsvRecords(columns, k) == [1..k -> CsvRows(columns)]

\* csv.writer: the text of one field (None is written as the empty string)
CsvFieldText(field) == IF field.t = "none" THEN <<>> ELSE field.v

\* csv.writer, QUOTE_MINIMAL: the characters that make a field need quotes
CsvSpecial == {",", "\"", "\r", "\n"}

RECURSIVE CsvDoubleQuotes(_)
CsvDoubleQuotes(chars) ==
    IF chars = <<>> THEN <<>>
    ELSE (IF Head(chars) = "\"" THEN <<"\"", "\"">> ELSE <<Head(chars)>>)
         \o CsvDoubleQuotes(Tail(chars))

\* csv.writer: one field as written; `alone` tells a row of one field, whose
\* empty text is written quoted
CsvWriteField(field, alone) ==
    LET chars == CsvFieldText(field)
    IN  IF (\E i \in 1..Len(chars) : chars[i] \in CsvSpecial)
           \/ (alone /\ chars = <<>>)
            THEN <<"\"">> \o CsvDoubleQuotes(chars) \o <<"\"">>
            ELSE chars

RECURSIVE CsvJoin(_, _)
CsvJoin(row, i) ==
    IF i > Len(row) THEN <<>>
    ELSE (IF i > 1 THEN <<",">> ELSE <<>>)
         \o CsvWriteField(row[i], Len(row) = 1)
         \o CsvJoin(row, i + 1)

\* csv.writer.writerow
writerow(row) == CsvJoin(row, 1) \o <<"\r", "\n">>

RECURSIVE CsvWriteRows(_, _)
CsvWriteRows(records, i) ==
    IF i > Len(records) THEN <<>>
    ELSE writerow(records[i]) \o CsvWriteRows(records, i + 1)

\* CsvBackend.construct_table
construct_table(record_set) ==
    writerow(record_set.columns) \o CsvWriteRows(record_set.records, 1)

\* the record set is in `constructed`, the text construct_table returned for
\* it in `table`
CsvInit ==
    /\ engine = "None"
    /\ connection = "None"
    /\ dialect = "None"
    /\ inspector = "None"
    /\ promptDialect = "GENERIC"
    /\ pc = "csv_new"
    /\ mgr = NoManager
    /\ drv = NoDriver
    /\ spool = <<>>
    /\ table = <<>>
    /\ pend = "none"
    /\ endSignal = "none"
    /\ mon = NoMonitor
    /\ orphans = {}
    /\ \E columns \in CsvColumns : \E k \in 0..MaxCsvRows :
          \E records \in CsvRecords(columns, k) :
             constructed = <<RecordSet(columns, records)>>
    /\ displayed = <<>>
    /\ lastOp = "none"
    /\ outcome = "none"
    /\ atExec = [engine |-> "None", connection |-> "None"]
    /\ detail = <<>>
    /\ txn = <<>>
    /\ structure = "None"
    /\ insps = EmptyBag
    /\ disconnects = 0
    /\ msgs = NoMessages
    /\ termCursor = "visible"
    /\ cachedFrom = "none"

CsvConstructTable ==
    /\ pc = "csv_new"
    /\ table' = construct_table(constructed[1])
    /\ pc' = "csv_done"
    /\ lastOp' = "construct_table"
    /\ outcome' = "returned"
    /\ UNCHANGED <<sideVars, backendVars, mgr, drv, spool, pend, endSignal, mon,
                   orphans, constructed, displayed, atExec>>

CsvNext == CsvConstructTable

CsvSpec == CsvInit /\ [][CsvNext]_vars


\* csv.reader with the default dialect, one character at a time. mode is the
\* parser's state, field the characters of the field being read, row the
\* fields of the record being read, rows the records read so far.
RECURSIVE CsvReader(_, _, _, _, _, _)
CsvReader(text, i, mode, field, row, rows) ==
    IF i > Len(text)
        THEN IF mode = "start_record" THEN rows
             ELSE IF mode = "eat_crnl" THEN Append(rows, row)
             ELSE Append(rows, Append(row, field))
    ELSE LET c == text[i]
             eol == c \in {"\r", "\n"}
         IN  CASE mode = "eat_crnl" /\ eol ->
                    CsvReader(text, i + 1, "eat_crnl", field, row, rows)
               [] mode = "eat_crnl" /\ ~eol ->
                    CsvReader(text, i, "start_record", <<>>, <<>>,
                              Append(rows, row))
               [] mode = "start_record" /\ eol ->
                    CsvReader(text, i + 1, "eat_crnl", <<>>, <<>>, rows)
               [] mode = "start_record" /\ ~eol ->
                    CsvReader(text, i, "start_field", <<>>, <<>>, rows)
               [] mode = "start_field" /\ eol ->
                    CsvReader(text, i + 1, "eat_crnl", <<>>,
                              Append(row, <<>>), rows)
               [] mode = "start_field" /\ c = "\"" ->
                    CsvReader(text, i + 1, "in_quoted", <<>>, row, rows)
               [] mode = "start_field" /\ c = "," ->
                    CsvReader(text, i + 1, "start_field", <<>>,
                              Append(row, <<>>), rows)
               [] mode \in {"in_field", "quote_in_quoted"} /\ eol ->
                    CsvReader(text, i + 1, "eat_crnl", <<>>,
                              Append(row, field), rows)
               [] mode \in {"in_field", "quote_in_quoted"} /\ c = "," ->
                    CsvReader(text, i + 1, "start_field", <<>>,
                              Append(row, field), rows)
               [] mode = "in_quoted" /\ c = "\"" ->
                    CsvReader(text, i + 1, "quote_in_quoted", field, row, rows)
               [] mode = "quote_in_quoted" /\ c = "\"" ->
                    CsvReader(text, i + 1, "in_quoted", Append(field, c),
                              row, rows)
               [] mode = "in_quoted" /\ c # "\"" ->
                    CsvReader(text, i + 1, "in_quoted", Append(field, c),
                              row, rows)
               [] OTHER ->
                    CsvReader(text, i + 1, "in_field", Append(field, c),
                              row, rows)

\* list(csv.reader(...)) of a text
CsvParse(text) == CsvReader(text, 1, "start_record", <<>>, <<>>, <<>>)

\* what a cell is to come back as: None as the string NULL, any other value
\* as its text
Recovered(field) ==
    IF field.t = "none" THEN <<"N", "U", "L", "L">> ELSE field.v

RecoveredRow(row) == [i \in 1..Len(row) |-> Recovered(row[i])]

\* the record set rendered last
CsvRendered == constructed[1]

\* C28: for the CSV table backend, parsing the rendered text of a record set
\* gives back the column names and then, row by row, every cell value, a None
\* cell as the string NULL.
C28_CsvRoundTrip ==
    pc = "csv_done"
    => CsvParse(table) =
          <<RecoveredRow(CsvRendered.columns)>>
          \o [j \in 1..Len(CsvRendered.records) |->
                 RecoveredRow(CsvRendered.records[j])]


\* ------------------------------------------------ calls on the query manager
\* has_another_record_set has returned true and no fetch_row has raised
\* since: the spooling loop stands before, or inside, its fetch loop
SetOpen == pc \in {"new", "fetch"}

RECURSIVE MessagesUpTo(_, _)
MessagesUpTo(arrive, k) ==
    IF k = 0 THEN <<>>
    ELSE MessagesUpTo(arrive, k - 1) \o Arriving(arrive, k)

IsPrefix(s, t) == Len(s) <= Len(t) /\ \A i \in 1..Len(s) : s[i] = t[i]

\* a T-SQL manager is in use
MsSqlInUse == pc \in MgrPcs /\ mgr.kind = "MsSqlManager"

\* C30: for the T-SQL manager the messages shown and those still pending
\* are, together, the messages of the native sets reached so far, each once
\* and in the driver's order; once a row of a set is fetched every message
\* of the sets before it has been shown; and when has_another_record_set has
\* answered false every message of the batch has been shown and none is
\* pending.
C30_MessagesForwardedOnce ==
    MsSqlInUse
    => /\ pc # "m_raised"
          => msgs.shown \o msgs.pending = MessagesUpTo(msgs.arrive, drv.pos)
       /\ drv.fetched > 0
          => IsPrefix(MessagesUpTo(msgs.arrive, drv.pos - 1), msgs.shown)
       /\ pc = "m_done"
          => /\ msgs.pending = <<>>
             /\ msgs.shown = MessagesUpTo(msgs.arrive, Len(msgs.arrive))

\* a batch has ended whose first set and a later set without columns both
\* brought messages, all of them shown
C30_SkippedSetMessagesShown ==
    /\ MsSqlInUse
    /\ pc = "m_done"
    /\ msgs.arrive[1] > 0
    /\ \E i \in 2..Len(drv.script) :
          drv.script[i].cols = <<>> /\ msgs.arrive[i] > 0
    /\ Len(msgs.shown) >= 2 * MaxMessages


\* ------------------------------------- T-SQL messages and the engine url
\* MsSqlManager._print_all_messages, one message at a time, with texts as
\* sequences of characters. A message is [code, text] as the driver gives
\* it; the engine url is the record URL._asdict() gives.

\* str.index / str.find: the first position of character c, 0 when absent
StrIndex(s, c) ==
    IF \E i \in 1..Len(s) : s[i] = c
        THEN CHOOSE i \in 1..Len(s) :
                 s[i] = c /\ \A j \in 1..(i - 1) : s[j] # c
        ELSE 0

\* s[:-1]
DropLast(s) == IF s = <<>> THEN <<>> ELSE SubSeq(s, 1, Len(s) - 1)

\* str.strip
RECURSIVE StrStrip(_)
StrStrip(s) ==
    IF s = <<>> THEN <<>>
    ELSE IF Head(s) = " " THEN StrStrip(Tail(s))
    ELSE IF s[Len(s)] = " " THEN StrStrip(DropLast(s))
    ELSE s

Digits == <<"0", "1", "2", "3", "4", "5", "6", "7", "8", "9">>

\* int(s) of a text of decimal digits; -1 stands for ValueError
RECURSIVE IntOf(_)
IntOf(s) ==
    IF s = <<>> \/ \E i \in 1..Len(s) : StrIndex(Digits, s[i]) = 0 THEN -1
    ELSE IF Len(s) = 1 THEN StrIndex(Digits, s[1]) - 1
    ELSE IntOf(DropLast(s)) * 10 + (StrIndex(Digits, s[Len(s)]) - 1)

\* MsSqlManager._remove_message_prefix, `times` passes of its loop left
RECURSIVE RemovePrefix(_, _)
RemovePrefix(message, times) ==
    IF times = 0 \/ StrIndex(message, "]") = 0 THEN message
    ELSE RemovePrefix(SubSeq(message, StrIndex(message, "]") + 1, Len(message)),
                      times - 1)

_remove_message_prefix(message) == RemovePrefix(message, PrefixPasses)

\* str.rfind("'."): the last position where "'." starts, 0 when absent
QuoteDotAt(s) ==
    LET at == {i \in 1..(Len(s) - 1) : s[i] = "'" /\ s[i + 1] = "."}
    IN  IF at = {} THEN 0 ELSE CHOOSE i \in at : \A j \in at : j <= i

\* MsSqlManager._inspect_message_for_code
_inspect_message_for_code(url, message_code, message_text) ==
    IF message_code # CHANGE_DATABASE THEN [exc |-> "none", url |-> url]
    ELSE IF StrIndex(message_text, "'") = 0
        THEN \* message_text.index("'")
             [exc |-> "ValueError", url |-> url]
    ELSE LET t1 == SubSeq(message_text, StrIndex(message_text, "'") + 1,
                          Len(message_text))
             q == QuoteDotAt(t1)
         IN  [exc |-> "none",
              url |-> [url EXCEPT !.database =
                          IF q = 0 THEN DropLast(t1)
                          ELSE SubSeq(t1, 1, q - 1)]]

\* MsSqlManager._inspect_message: a code that has no "(" or is no number is
\* given up
_inspect_message(url, message_code, message_text) ==
    LET p == StrIndex(message_code, "(")
        n == IntOf(StrStrip(DropLast(SubSeq(message_code, p + 1,
                                            Len(message_code)))))
    IN  IF p = 0 \/ n = -1 THEN [exc |-> "none", url |-> url]
        ELSE _inspect_message_for_code(url, n,
                                       _remove_message_prefix(message_text))

\* the codes pyodbc can hand over: CHANGE_DATABASE plainly and with blanks,
\* another code, the code of PRINT, no number in brackets, a number with a
\* letter in it, a bracket that is not last
MessageCodes5701 == {<<"[", "0", "]", " ", "(", "5", "7", "0", "1", ")">>, <<"(", " ", "5", "7", "0", "1", " ", ")">>}

MessageCodes ==
    MessageCodes5701
    \cup {<<"[", "0", "]", " ", "(", "5", "7", "0", "3", ")">>, <<"[", "0", "]", " ", "(", "0", ")">>, <<"[", "0", "]">>, <<"(", "5", "7", "x", "1", ")">>, <<"(", "5", "7", "0", "1", ")", " ">>}

\* the three prefixes the driver puts before a message
DriverPrefix == <<"[", "M", "]", "[", "O", "]", "[", "S", "]">>

\* the text the server sends when the database context changes to `name`
ChangedDatabaseTo(name) ==
    DriverPrefix \o <<"t", "o", " ", "'">> \o name \o <<"'", ".">>

\* database names: plain, with a quote, with a closing bracket
DatabaseNames == {<<"d", "b", "2">>, <<"i", "t", "'", "s">>, <<"a", "]", "b">>}

MessageTexts ==
    {ChangedDatabaseTo(name) : name \in DatabaseNames}
    \cup {DriverPrefix \o <<"h", "i">>}

Messages == [code : MessageCodes, text : MessageTexts]

\* engine urls of a T-SQL connection
MsSqlUrls ==
    {[drivername |-> "mssql+pyodbc", username |-> u, password |-> u,
      host |-> "host", port |-> 1433, database |-> d, query |-> "driver=ODBC"] :
        u \in {"None", "sa"}, d \in {<<>>, <<"d", "b", "2">>}}

\* the url fields other than the database
OtherUrlFields == {"drivername", "username", "password", "host", "port", "query"}

\* a cursor with one or two messages on it, on an engine with a T-SQL url
UrlInit ==
    /\ engine \in MsSqlUrls
    /\ connection = "None"
    /\ dialect = "mssql"
    /\ inspector = "None"
    /\ promptDialect = "GENERIC"
    /\ pc = "print"
    /\ mgr = NoManager
    /\ drv = NoDriver
    /\ spool = <<>>
    /\ table = <<>>
    /\ pend = "none"
    /\ endSignal = "none"
    /\ mon = NoMonitor
    /\ orphans = {}
    /\ constructed = <<>>
    /\ displayed = <<>>
    /\ lastOp = "_print_all_messages"
    /\ outcome = "running"
    /\ atExec = [engine |-> "None", connection |-> "None"]
    /\ detail = <<>>
    /\ txn = <<>>
    /\ structure = "None"
    /\ insps = EmptyBag
    /\ disconnects = 0
    /\ \E k \in {1, 2} : \E pending \in [1..k -> Messages] :
          msgs = [arrive |-> <<>>, pending |-> pending, shown |-> <<>>]
    /\ termCursor = "visible"
    /\ cachedFrom = "none"

\* one turn of the loop of _print_all_messages
PrintMessage ==
    /\ pc = "print"
    /\ Len(msgs.shown) < Len(msgs.pending)
    /\ LET m == msgs.pending[Len(msgs.shown) + 1]
           r == _inspect_message(engine, m.code, _remove_message_prefix(m.text))
       IN  /\ engine' = r.url
           /\ IF r.exc = "none"
                 THEN /\ msgs' = [msgs EXCEPT !.shown =
                                     Append(@, _remove_message_prefix(m.text))]
                      /\ UNCHANGED <<pc, outcome>>
                 ELSE /\ pc' = "print_raised"
                      /\ outcome' = r.exc
                      /\ UNCHANGED msgs
    /\ UNCHANGED <<connection, dialect, inspector, promptDialect, mgr, drv,
                   spoolVars, orphans, lastOp, atExec, detail, txn, structure,
                   insps, disconnects, termCursor, cachedFrom>>

\* self.__cursor.messages.clear()
ClearMessages ==
    /\ pc = "print"
    /\ Len(msgs.shown) = Len(msgs.pending)
    /\ msgs' = [msgs EXCEPT !.pending = <<>>]
    /\ pc' = "print_done"
    /\ outcome' = "returned"
    /\ UNCHANGED <<backendVars, mgr, drv, spoolVars, orphans, lastOp, atExec,
                   detail, txn, structure, insps, disconnects, termCursor,
                   cachedFrom>>

UrlNext == PrintMessage \/ ClearMessages

UrlSpec == UrlInit /\ [][UrlNext]_vars

\* the message the next turn of the loop takes
NextMessage == msgs.pending[Len(msgs.shown) + 1]

\* C31: a message with code 5701 makes the database of the engine url the
\* name quoted in its text and leaves every other field of the url as it
\* was; a message with another code, or with a code that is no number,
\* leaves the url as it was.
C31_DatabaseFollowsMessage ==
    [][PrintMessage
         => /\ \A f \in OtherUrlFields : engine'[f] = engine[f]
            /\ \A name \in DatabaseNames :
                  (NextMessage.code \in MessageCodes5701
                   /\ NextMessage.text = ChangedDatabaseTo(name))
                  => engine'.database = name
            /\ NextMessage.code \notin MessageCodes5701
                  => engine' = engine]_vars


C33_ExitCommitsOnEveryPath ==
    /\ [][(MgrExit /\ mgr.kind \in SplittingManagers)
            => txn' = Append(txn, "commit")]_vars
    /\ [](mgr.kind \in SplittingManagers => ~Carries(txn, "rollback"))

\* the with block was left by the SqlQueryException of a statement that
\* followed one which returned records, and the commit was made
C33_CommittedAfterFailingStatement ==
    /\ pc = "idle"
    /\ lastOp = "manager"
    /\ mgr.kind \in SplittingManagers
    /\ mgr.err
    /\ mgr.columns # <<>>
    /\ outcome = "SqlQueryException"
    /\ txn = <<"commit">>

\* ----------------------------------------------- the spooling loop's end
\* the steps of the thread that runs execute(), from the first
\* has_another_record_set to the exit of the with block
SpoolStep ==
    \/ WhileHasAnother
    \/ \E display_progress \in BOOLEAN : StartMonitor(display_progress)
    \/ FetchLoop
    \/ HandlerStop
    \/ HandlerJoin
    \/ Reraise
    \/ MarkDone
    \/ ConstructTable
    \/ Stop
    \/ Join
    \/ DisplayTable

\* connect() before the execute() whose loop is followed
ConnectBefore(cs) == lastOp # "execute" /\ Connect(cs)

\* the one execute() whose loop is followed
ExecuteOnce == lastOp # "execute" /\ ExecuteSaQuery

\* one execute() on a backend that connect() was called on, from its call
\* to its return, with the monitors it starts
SpoolNext ==
    \/ \E cs \in ConnectionStrings : ConnectBefore(cs)
    \/ ExecuteOnce
    \/ SpoolStep
    \/ InterruptFetch
    \/ \E exc \in {"TableError", "KeyboardInterrupt"} : ConstructRaises(exc)
    \/ InterruptOutsideTry
    \/ MonitorRun
    \/ OrphanRun

\* the thread of execute() and the monitor's thread are both scheduled as
\* long as they can run; interrupts come when they come
SpoolSpec ==
    Init /\ [][SpoolNext]_vars /\ WF_vars(SpoolStep) /\ WF_vars(MonitorRun)

SentByFetchRow(m, d) == IF m.cursor = "None" THEN {d.pos + 1} ELSE {}

\* a SQLite / Postgres manager in its with block
SplittingInUse == pc \in MgrPcs /\ mgr.kind \in SplittingManagers

\* a statement of the manager in use has failed with SqlQueryException
StatementFailed ==
    SplittingInUse /\ pc = "m_raised" /\ outcome = "SqlQueryException"

\* C35: once a statement of a SQLite or Postgres manager has failed with
\* SqlQueryException, has_another_record_set answers false and changes
\* nothing, so it goes on answering false; a further fetch_row sends no
\* statement later than the one that failed; and the index of the statement
\* reached never exceeds the number of statements.
C35_StopsAtFailedStatement ==
    /\ StatementFailed =>
          /\ mgr.err
          /\ ~HasAnotherRecordSet(mgr, drv).ret
          /\ HasAnotherRecordSet(mgr, drv).mgr = mgr
          /\ HasAnotherRecordSet(mgr, drv).drv = drv
          /\ \A i \in SentByFetchRow(mgr, drv) : drv.script[i].err
    /\ SplittingInUse => drv.pos <= Len(drv.script)

\* the second of three statements has failed
C35_FailedWithStatementsLeft ==
    /\ StatementFailed
    /\ drv.pos = 1
    /\ Len(drv.script) = 3

\* C36: between backend operations an engine exists exactly when an open
\* connection exists, and the dialect is unset whenever no engine exists,
\* whatever way the last connect() ended.
C36_ConnectionStateConsistent ==
    pc = "idle" =>
        /\ (engine # "None") <=> (connection # "None")
        /\ engine = "None" => dialect = "None"

\* C37: from the return of disconnect() until the next operation on the
\* backend the prompt's cached structure is empty, whatever inspector
\* threads started before the disconnect do meanwhile.
C37_StructureStaysEmpty ==
    (pc = "idle" /\ lastOp = "disconnect" /\ outcome = "returned")
        => structure = "None"

\* the inspector self.__inspector refers to has finished, and so have all
\* the others
AllInspectorsFinished == insps = EmptyBag

\* C38: once all inspector threads have finished, the cache does not hold
\* the structure of an earlier inspector written over the one the most
\* recently started inspector produced.
C38_LatestInspectorWins == AllInspectorsFinished => cachedFrom # "stale"

\* C39: execute() and fetch_results_for() called on a backend that is
\* disconnected or was never connected (no engine, no connection) end with
\* DisconnectedException, or with the mismatch error of a foreign query,
\* never with an unclassified error.
C39_DisconnectedIsClassified ==
    (/\ pc = "idle"
     /\ lastOp \in {"execute", "fetch_results_for"}
     /\ atExec.engine = "None"
     /\ atExec.connection = "None")
        => outcome \in {"DisconnectedException", "SqlBackendMismatchException"}

====
